---------------------------- MODULE Spec2Model ----------------------------
(***************************************************************************)
(* A model of worldbank/api.py: the memoized indicator lookup, the request *)
(* builder and transport (_request), the entity mappers (from_api) and the *)
(* public query operations (get / by_* / search).                          *)
(*                                                                         *)
(* Text is a sequence of tokens (a token is a character or an unbroken run *)
(* of characters), so that '%s/%s' formatting is concatenation.  JSON and  *)
(* Python values are tagged records; a call returns Ok(value) or           *)
(* Raise(exception).                                                       *)
(***************************************************************************)
EXTENDS Naturals, Sequences, FiniteSets, TLC

\* Longest data array a response carries.
MaxItems == 2
\* Longest topics list of an Indicator payload.
MaxTopics == 2

(***************************************************************************)
(* Values                                                                  *)
(***************************************************************************)
None == [t |-> "null"]
Str(s) == [t |-> "str", v |-> s]
Bytes(s) == [t |-> "bytes", v |-> s]
Num(n) == [t |-> "num", v |-> n]
Float(s) == [t |-> "float", v |-> s]
Obj(f) == [t |-> "obj", v |-> f]
Arr(s) == [t |-> "arr", v |-> s]

Ok(x) == [ok |-> TRUE, val |-> x]
Raise(e) == [ok |-> FALSE, err |-> e]

\* Sequences over S of length at most n.
SeqsUpTo(S, n) == UNION {[1..k -> S] : k \in 0..n}

\* dict.get(key, default)
Get(d, key, default) == IF key \in DOMAIN d THEN d[key] ELSE default

\* Python truth value: None, 0 and the empty string are false.
Truthy(x) ==
  CASE x.t = "null" -> FALSE
    [] x.t = "num" -> x.v # 0
    [] x.t \in {"str", "bytes", "arr"} -> x.v # <<>>
    [] OTHER -> TRUE

\* str.encode('ascii', 'ignore'): the non-ASCII characters are dropped.
NonAscii == {"\\u00e9"}
IsAscii(c) == c \notin NonAscii
encode(x) == Bytes(SelectSeq(x.v, IsAscii))

\* str(x) and '%s' % x
ToStr(x) ==
  CASE x.t = "null" -> <<"None">>
    [] x.t = "num" -> <<ToString(x.v)>>
    [] x.t = "str" -> x.v
    [] x.t = "inst" -> x.v.id.v
    [] OTHER -> <<"<object>">>

\* float(x) of text: the numerals parse, anything else is a ValueError.
Numerals == {<<"1.5">>, <<"0">>}
float(x) ==
  CASE x.t = "num" -> Ok(Float(<<ToString(x.v)>>))
    [] x.t = "str" /\ x.v \in Numerals -> Ok(Float(x.v))
    [] x.t = "str" -> Raise("ValueError")
    [] OTHER -> Raise("TypeError")

\* An instance of class cls with the attributes f.
Inst(cls, f) == [t |-> "inst", cls |-> cls, v |-> f]

(***************************************************************************)
(* Entity mappers                                                          *)
(***************************************************************************)
Source_from_api(data) ==
  IF data.t # "obj" THEN Raise("TypeError")
  ELSE LET d == data.v IN
    IF "id" \notin DOMAIN d THEN Raise("KeyError")
    ELSE LET name == Get(d, "value", Get(d, "name", None)) IN
      IF name.t # "str" THEN Raise("AttributeError")
      ELSE Ok(Inst("Source",
                   [id |-> d["id"],
                    code |-> Get(d, "code", None),
                    name |-> encode(name),
                    description |-> Get(d, "description", None),
                    url |-> Get(d, "url", None),
                    concepts |-> Get(d, "concepts", None),
                    data_availability |-> Get(d, "dataavailability", None),
                    metadata_availability |-> Get(d, "metadataavailability", None)]))

\* IncomeLevel.from_api and LendingType.from_api have the same body.
IdValueIso_from_api(cls, data) ==
  IF data.t # "obj" THEN Raise("TypeError")
  ELSE LET d == data.v IN
    IF {"id", "value", "iso2code"} \subseteq DOMAIN d
    THEN Ok(Inst(cls, [id |-> d["id"], name |-> d["value"], iso2code |-> d["iso2code"]]))
    ELSE Raise("KeyError")

IncomeLevel_from_api(data) == IdValueIso_from_api("IncomeLevel", data)

LendingType_from_api(data) == IdValueIso_from_api("LendingType", data)

\* Region.from_api, inherited by AdminRegion (cls is the receiving class).
Region_from_api(cls, data) ==
  IF data.t # "obj" THEN Raise("TypeError")
  ELSE LET d == data.v IN
    IF {"id", "iso2code", "value"} \subseteq DOMAIN d
    THEN Ok(Inst(cls, [id |-> d["id"], code |-> d["iso2code"], name |-> d["value"]]))
    ELSE Raise("KeyError")

Topic_from_api(data) ==
  IF data.t # "obj" THEN Raise("TypeError")
  ELSE LET d == data.v IN
    IF {"id", "value"} \subseteq DOMAIN d
    THEN Ok(Inst("Topic", [id |-> d["id"], value |-> d["value"],
                           note |-> Get(d, "sourceNote", None)]))
    ELSE Raise("KeyError")

City(name, latitude, longitude) ==
  Inst("City", [name |-> name, latitude |-> latitude, longitude |-> longitude])

Catalog_from_api(data) ==
  IF data.t # "obj" THEN Raise("TypeError")
  ELSE LET d == data.v IN
    IF {"id", "metatype"} \subseteq DOMAIN d
    THEN Ok(Inst("Catalog", [id |-> d["id"], metatypes |-> d["metatype"]]))
    ELSE Raise("KeyError")


\* The loop with a slip: break where the code has continue.
RECURSIVE MapTopics_break(_, _)
MapTopics_break(items, acc) ==
  IF items = <<>> THEN Ok(acc)
  ELSE LET item == Head(items) IN
    IF item.t \notin {"obj", "arr", "str"} THEN Raise("TypeError")
    ELSE IF ~(item.t = "obj" /\ "id" \in DOMAIN item.v) THEN Ok(acc)
    ELSE LET topic == Topic_from_api(item) IN
      IF topic.ok THEN MapTopics_break(Tail(items), Append(acc, topic.val)) ELSE topic

\* The loop over topic_data of Indicator.from_api: elements without an id are
\* skipped, the others mapped in order; the first failure ends the loop.
RECURSIVE MapTopics(_, _)
MapTopics(items, acc) ==
  IF items = <<>> THEN Ok(acc)
  ELSE LET item == Head(items) IN
    IF item.t \notin {"obj", "arr", "str"} THEN Raise("TypeError")
    ELSE IF ~(item.t = "obj" /\ "id" \in DOMAIN item.v) THEN MapTopics(Tail(items), acc)
    ELSE LET topic == Topic_from_api(item) IN
      IF topic.ok THEN MapTopics(Tail(items), Append(acc, topic.val)) ELSE topic

Indicator_from_api(data) ==
  IF data.t # "obj" THEN Raise("TypeError")
  ELSE LET d == data.v IN
    IF "id" \notin DOMAIN d \/ "name" \notin DOMAIN d THEN Raise("KeyError")
    ELSE IF d["name"].t # "str" THEN Raise("AttributeError")
    ELSE LET source_data == Get(d, "source", None)
             topic_data == Get(d, "topics", Arr(<<>>))
             source_organization == Get(d, "sourceOrganization", None)
         IN
      IF source_organization.t # "str" THEN Raise("AttributeError")
      ELSE IF "unit" \notin DOMAIN d THEN Raise("KeyError")
      ELSE LET source == Source_from_api(source_data) IN
        IF ~source.ok THEN source
        ELSE IF topic_data.t # "arr" THEN Raise("TypeError")
        ELSE LET topics == MapTopics(topic_data.v, <<>>) IN
          IF ~topics.ok THEN topics
          ELSE Ok(Inst("Indicator",
                       [id |-> d["id"],
                        name |-> encode(d["name"]),
                        source |-> source.val,
                        topics |-> topics.val,
                        source_note |-> Get(d, "sourceNote", None),
                        source_organization |-> encode(source_organization),
                        unit |-> d["unit"]]))

Country_from_api(data) ==
  IF data.t # "obj" THEN Raise("TypeError")
  ELSE LET d == data.v IN
    IF "id" \notin DOMAIN d \/ "name" \notin DOMAIN d THEN Raise("KeyError")
    ELSE LET region == Region_from_api("Region", Get(d, "region", None)) IN
      IF ~region.ok THEN region
      ELSE LET admin_region == Region_from_api("AdminRegion", Get(d, "adminregion", None)) IN
        IF ~admin_region.ok THEN admin_region
        ELSE LET income_level == IncomeLevel_from_api(Get(d, "incomeLevel", None)) IN
          IF ~income_level.ok THEN income_level
          ELSE LET lending_type == LendingType_from_api(Get(d, "lendingType", None)) IN
            IF ~lending_type.ok THEN lending_type
            ELSE Ok(Inst("Country",
                         [id |-> d["id"],
                          name |-> d["name"],
                          iso_code |-> Get(d, "iso2Code", None),
                          region |-> region.val,
                          admin_region |-> admin_region.val,
                          income_level |-> income_level.val,
                          lending_type |-> lending_type.val,
                          capital |-> City(Get(d, "capitalCity", None),
                                           Get(d, "latitude", None),
                                           Get(d, "longitude", None))]))

\* cls.from_api(item) for the classes whose mapper issues no request.
from_api(cls, item) ==
  CASE cls = "Source" -> Source_from_api(item)
    [] cls = "IncomeLevel" -> IncomeLevel_from_api(item)
    [] cls = "LendingType" -> LendingType_from_api(item)
    [] cls = "Topic" -> Topic_from_api(item)
    [] cls = "Region" -> Region_from_api("Region", item)
    [] cls = "AdminRegion" -> Region_from_api("AdminRegion", item)
    [] cls = "Indicator" -> Indicator_from_api(item)
    [] cls = "Country" -> Country_from_api(item)
    [] cls = "Catalog" -> Catalog_from_api(item)

\* Comprehension with a slip: an item that fails to map is left out.
RECURSIVE Comprehension_skip(_, _, _)
Comprehension_skip(cls, items, acc) ==
  IF items = <<>> THEN Ok(acc)
  ELSE LET r == from_api(cls, Head(items)) IN
    Comprehension_skip(cls, Tail(items), IF r.ok THEN Append(acc, r.val) ELSE acc)

\* [cls.from_api(item) for item in data]: the first item that fails to map
\* raises out of the comprehension, and no list is built.
RECURSIVE Comprehension(_, _, _)
Comprehension(cls, items, acc) ==
  IF items = <<>> THEN Ok(acc)
  ELSE LET r == from_api(cls, Head(items)) IN
    IF r.ok THEN Comprehension(cls, Tail(items), Append(acc, r.val)) ELSE r

(***************************************************************************)
(* Query builder and transport                                             *)
(***************************************************************************)
\* A keyword mapping is the sequence of its <<key, value>> pairs in insertion
\* order, the order a dict iterates and prints in.
Keys(kw) == {kw[i][1] : i \in DOMAIN kw}

Lookup(kw, key, default) ==
  IF key \in Keys(kw) THEN (CHOOSE p \in {kw[i] : i \in DOMAIN kw} : p[1] = key)[2]
  ELSE default

\* dict.setdefault(key, value): a key already present keeps its value.
setdefault(kw, key, value) == IF key \in Keys(kw) THEN kw ELSE Append(kw, <<key, value>>)

\* dict.pop(key, None): the mapping that is left (Lookup gives the value).
RECURSIVE pop(_, _)
pop(kw, key) ==
  IF kw = <<>> THEN <<>>
  ELSE IF Head(kw)[1] = key THEN pop(Tail(kw), key)
  ELSE <<Head(kw)>> \o pop(Tail(kw), key)

\* quote_plus: the reserved characters are percent-encoded.
QuoteChar(c) ==
  CASE c = ":" -> "%3A"
    [] c = "/" -> "%2F"
    [] c = ";" -> "%3B"
    [] c = " " -> "+"
    [] OTHER -> c
quote_plus(s) == [i \in DOMAIN s |-> QuoteChar(s[i])]

\* urlencode(parameters): quote_plus(str(k)) = quote_plus(str(v)), joined by &.
RECURSIVE urlencode(_)
urlencode(kw) ==
  IF kw = <<>> THEN <<>>
  ELSE quote_plus(Head(kw)[1]) \o <<"=">> \o quote_plus(ToStr(Head(kw)[2]))
       \o (IF Tail(kw) = <<>> THEN <<>> ELSE <<"&">> \o urlencode(Tail(kw)))

\* What the server does with one GET.
NetErr == [kind |-> "neterr"]
BadJson == [kind |-> "badjson"]
Json(body) == [kind |-> "json", body |-> body]

\* _request with a slip: a GET that fails is tried a second time.
_request_retry(url, parameters, resp) ==
  LET params == setdefault(parameters, <<"format">>, Str(<<"json">>))
      full == url \o <<"?">> \o urlencode(params)
  IN CASE resp.kind = "neterr" ->
            [gets |-> <<full, full>>, log |-> <<"debug", "error", "error">>,
             res |-> Raise("URLError")]
       [] resp.kind = "badjson" ->
            [gets |-> <<full>>, log |-> <<"debug", "debug">>, res |-> Raise("JSONDecodeError")]
       [] OTHER ->
            [gets |-> <<full>>, log |-> <<"debug", "debug">>, res |-> Ok(resp.body)]

\* _request(url, parameters=...): the URL of each urlopen call, the level of
\* each log line written, and the decoded body or the exception raised.
_request(url, parameters, resp) ==
  LET params == setdefault(parameters, <<"format">>, Str(<<"json">>))
      encoded_parameters == urlencode(params)
      full == IF encoded_parameters # <<>> THEN url \o <<"?">> \o encoded_parameters ELSE url
  IN CASE resp.kind = "neterr" ->
            [gets |-> <<full>>, log |-> <<"debug", "error">>, res |-> Raise("URLError")]
       [] resp.kind = "badjson" ->
            [gets |-> <<full>>, log |-> <<"debug", "debug">>, res |-> Raise("JSONDecodeError")]
       [] OTHER ->
            [gets |-> <<full>>, log |-> <<"debug", "debug">>, res |-> Ok(resp.body)]

domain == <<"https:", "/", "/", "api.worldbank.org", "/", "v2">>

\* summary, data = _request(...)
Unpack(body) ==
  IF body.t = "arr" THEN
    IF Len(body.v) = 2 THEN Ok([summary |-> body.v[1], data |-> body.v[2]])
    ELSE Raise("ValueError")
  ELSE IF body.t = "obj" /\ Cardinality(DOMAIN body.v) # 2 THEN Raise("ValueError")
  ELSE Raise("TypeError")

\* summary, data = _request(url, parameters=kwargs)
\* instances = [cls.from_api(item) for item in data]
\* return summary, instances
PagedQuery(cls, url, kwargs, resp) ==
  LET r == _request(url, kwargs, resp) IN
  IF ~r.res.ok THEN r
  ELSE LET u == Unpack(r.res.val) IN
    IF ~u.ok THEN [r EXCEPT !.res = u]
    ELSE IF u.val.data.t # "arr" THEN [r EXCEPT !.res = Raise("TypeError")]
    ELSE LET instances == Comprehension(cls, u.val.data.v, <<>>) IN
      IF ~instances.ok THEN [r EXCEPT !.res = instances]
      ELSE [r EXCEPT !.res = Ok([summary |-> u.val.summary, instances |-> instances.val])]

\* data = _request(url, parameters=kwargs)
\* instances = [cls.from_api(item) for item in data['datacatalog']]
CatalogQuery(url, kwargs, resp) ==
  LET r == _request(url, kwargs, resp) IN
  IF ~r.res.ok THEN r
  ELSE LET data == r.res.val IN
    IF data.t # "obj" THEN [r EXCEPT !.res = Raise("TypeError")]
    ELSE IF "datacatalog" \notin DOMAIN data.v THEN [r EXCEPT !.res = Raise("KeyError")]
    ELSE IF data.v["datacatalog"].t # "arr" THEN [r EXCEPT !.res = Raise("TypeError")]
    ELSE LET instances == Comprehension("Catalog", data.v["datacatalog"].v, <<>>) IN
      IF ~instances.ok THEN [r EXCEPT !.res = instances]
      ELSE [r EXCEPT !.res = Ok([instances |-> instances.val])]

(***************************************************************************)
(* The server: the payloads it serves and the answers it may give          *)
(***************************************************************************)
T(s) == Str(<<s>>)

SourcePayload == Obj([id |-> T("2"), name |-> T("WDI"), url |-> Str(<<>>)])
NestedSource == Obj([id |-> T("2"), value |-> T("WDI")])
IncomeLevelPayload == Obj([id |-> T("HIC"), iso2code |-> T("XD"), value |-> T("High income")])
LendingTypePayload == Obj([id |-> T("IBD"), iso2code |-> T("XF"), value |-> T("IBRD")])
RegionPayload == Obj([id |-> T("NAC"), iso2code |-> T("XU"), value |-> T("North America")])
TopicPayload == Obj([id |-> T("3"), value |-> T("Economy"), sourceNote |-> T("note")])
CatalogPayload ==
  Obj([id |-> T("7"), metatype |-> Arr(<<Obj([id |-> T("name"), value |-> T("WDI")])>>)])
IndicatorPayload(id) ==
  Obj([id |-> id, name |-> Str(<<"GDP", "\\u00e9">>), unit |-> Str(<<>>),
       source |-> NestedSource, sourceNote |-> T("note"),
       sourceOrganization |-> T("World Bank"),
       topics |-> Arr(<<Obj(<<>>), TopicPayload>>)])
CountryPayload ==
  Obj([id |-> T("USA"), iso2Code |-> T("US"), name |-> T("United States"),
       region |-> RegionPayload, adminregion |-> RegionPayload,
       incomeLevel |-> IncomeLevelPayload, lendingType |-> LendingTypePayload,
       capitalCity |-> T("Washington"), latitude |-> T("38.9"), longitude |-> T("-77.0")])
ObservationPayload(id, value) ==
  Obj([indicator |-> Obj([id |-> id, value |-> T("GDP")]),
       country |-> Obj([id |-> T("US"), value |-> T("United States")]),
       countryiso3code |-> T("USA"), date |-> T("2010"), value |-> value,
       unit |-> Str(<<>>), obs_status |-> Str(<<>>), decimal |-> Num(0)])

\* payload without the member key
Without(payload, key) == Obj([k \in DOMAIN payload.v \ {key} |-> payload.v[k]])

\* What an endpoint may list for a class: a payload as the API documents it
\* and one the mapper cannot map.
Samples(cls) ==
  CASE cls = "Source" -> {SourcePayload, Without(SourcePayload, "name")}
    [] cls = "IncomeLevel" -> {IncomeLevelPayload, Without(IncomeLevelPayload, "id")}
    [] cls = "LendingType" -> {LendingTypePayload, Without(LendingTypePayload, "iso2code")}
    [] cls = "Topic" -> {TopicPayload, Without(TopicPayload, "value")}
    [] cls = "Country" -> {CountryPayload, [CountryPayload EXCEPT !.v.incomeLevel = None]}
    [] cls = "Indicator" -> {IndicatorPayload(T("A")),
                             Without(IndicatorPayload(T("A")), "sourceOrganization")}
    [] cls = "Catalog" -> {CatalogPayload, Without(CatalogPayload, "metatype")}
    [] cls = "CountryIndicator" -> {ObservationPayload(T("A"), Num(3)),
                                    ObservationPayload(T("B"), None),
                                    ObservationPayload(T("A"), T("n/a"))}

Summary(n) == Obj([page |-> Num(1), pages |-> Num(1), per_page |-> Num(50), total |-> Num(n)])
\* [summary, data]
Paged(items) == Arr(<<Summary(Len(items)), Arr(items)>>)
\* the one-element array the API answers an unknown id with
Message == Arr(<<Obj([message |-> Arr(<<Obj([id |-> T("120"), key |-> T("Invalid value")])>>)])>>)

PagedResponses(cls) ==
  {NetErr, BadJson, Json(Message)} \cup {Json(Paged(items)) : items \in SeqsUpTo(Samples(cls), MaxItems)}

CatalogResponses ==
  {NetErr, BadJson, Json(Message)}
    \cup {Json(Obj([datacatalog |-> Arr(items)])) : items \in SeqsUpTo(Samples("Catalog"), MaxItems)}

\* The answers to GET /indicators[/{id}].
IndicatorResponses(indicator) ==
  LET id == IF Truthy(indicator) THEN indicator ELSE T("A")
      good == IndicatorPayload(id)
      bad == Without(good, "sourceOrganization")
  IN {NetErr, BadJson, Json(Message),
      Json(Paged(<<>>)), Json(Paged(<<good>>)), Json(Paged(<<bad>>)), Json(Paged(<<good, bad>>))}

(***************************************************************************)
(* Memoization                                                             *)
(***************************************************************************)
Class(name) == [t |-> "class", v |-> name]

\* repr(x), as str() of a tuple or of a dict prints its members
Repr(x) ==
  CASE x.t = "str" -> <<"'">> \o x.v \o <<"'">>
    [] x.t = "class" -> <<"<class '", x.v, "'>">>
    [] OTHER -> ToStr(x)

RECURSIVE ReprArgs(_)
ReprArgs(args) ==
  IF args = <<>> THEN <<>>
  ELSE Repr(Head(args)) \o <<",">> \o ReprArgs(Tail(args))

RECURSIVE ReprKwargs(_)
ReprKwargs(kw) ==
  IF kw = <<>> THEN <<>>
  ELSE <<"'">> \o Head(kw)[1] \o <<"'", ":">> \o Repr(Head(kw)[2]) \o <<",">>
       \o ReprKwargs(Tail(kw))

\* key = str(args) + str(kwargs)
Key(args, kwargs) == <<"(">> \o ReprArgs(args) \o <<")", "{">> \o ReprKwargs(kwargs) \o <<"}">>

\* The function memoize wraps, Indicator.get as written; args is (cls,) or
\* (cls, indicator).
obj(args, kwargs, resp) ==
  LET indicator == IF Len(args) > 1 THEN args[2] ELSE None
      url == IF Truthy(indicator)
             THEN domain \o <<"/", "indicators", "/">> \o ToStr(indicator)
             ELSE domain \o <<"/", "indicators">>
  IN PagedQuery("Indicator", url, kwargs, resp)

\* cache[key] = value.  The state st a call runs in and leaves behind holds
\* the memoization cache, the keys looked up so far, and the GETs issued, the
\* server's answers to them and the log lines written by the operation under
\* way.
Store(cache, key, value) ==
  [k \in DOMAIN cache \cup {key} |-> IF k = key THEN value ELSE cache[k]]

\* memoizer with a slip: the wrapped function runs on every call.
memoizer_always(st, args, kwargs) ==
  LET key == Key(args, kwargs) IN
  {LET r == obj(args, kwargs, resp) IN
     [st |-> [st EXCEPT !.called = @ \cup {key},
                        !.gets = @ \o r.gets,
                        !.resps = Append(@, resp),
                        !.log = @ \o r.log,
                        !.cache = IF r.res.ok THEN Store(@, key, r.res.val) ELSE @],
      res |-> r.res]
   : resp \in IndicatorResponses(IF Len(args) > 1 THEN args[2] ELSE None)}

\* memoizer with a slip: a call that raises is filed as an empty result.
memoizer_failed(st, args, kwargs) ==
  LET key == Key(args, kwargs)
      st1 == [st EXCEPT !.called = @ \cup {key}]
  IN IF key \in DOMAIN st.cache
     THEN {[st |-> st1, res |-> Ok(st.cache[key])]}
     ELSE {LET r == obj(args, kwargs, resp) IN
             [st |-> [st1 EXCEPT !.gets = @ \o r.gets,
                                 !.resps = Append(@, resp),
                                 !.log = @ \o r.log,
                                 !.cache = Store(@, key, IF r.res.ok THEN r.res.val
                                                         ELSE [summary |-> None, instances |-> <<>>])],
              res |-> r.res]
           : resp \in IndicatorResponses(IF Len(args) > 1 THEN args[2] ELSE None)}

\* memoizer(*args, **kwargs), for each answer the server may give: the
\* wrapped function runs only when the key is not in the cache, and its
\* result is stored only when it returns.
memoizer(st, args, kwargs) ==
  LET key == Key(args, kwargs)
      st1 == [st EXCEPT !.called = @ \cup {key}]
  IN IF key \in DOMAIN st.cache
     THEN {[st |-> st1, res |-> Ok(st.cache[key])]}
     ELSE {LET r == obj(args, kwargs, resp) IN
             [st |-> [st1 EXCEPT !.gets = @ \o r.gets,
                                 !.resps = Append(@, resp),
                                 !.log = @ \o r.log,
                                 !.cache = IF r.res.ok THEN Store(@, key, r.res.val) ELSE @],
              res |-> r.res]
           : resp \in IndicatorResponses(IF Len(args) > 1 THEN args[2] ELSE None)}

(***************************************************************************)
(* Observations                                                            *)
(***************************************************************************)
\* CountryIndicator.from_api(data) after the indicator lookup returned found.
Observation(d, found) ==
  IF ~found.ok THEN found
  ELSE LET indicators == found.val.instances IN
    IF indicators = <<>> THEN Raise("IndexError")
    ELSE IF "date" \notin DOMAIN d \/ "value" \notin DOMAIN d THEN Raise("KeyError")
    ELSE LET value == IF Truthy(d["value"]) THEN float(d["value"]) ELSE Ok(d["value"]) IN
      IF ~value.ok THEN value
      ELSE IF {"decimal", "unit", "obs_status", "countryiso3code"} \subseteq DOMAIN d
      THEN Ok(Inst("CountryIndicator",
                   [indicator |-> indicators[1],
                    country_iso3code |-> d["countryiso3code"],
                    country |-> d["country"],
                    year |-> d["date"],
                    value |-> value.val,
                    decimal |-> d["decimal"]]))
      ELSE Raise("KeyError")

\* CountryIndicator.from_api(data): every observation looks its indicator up
\* through the memoized Indicator.get.
CountryIndicator_from_api(st, data) ==
  IF data.t # "obj" THEN {[st |-> st, res |-> Raise("TypeError")]}
  ELSE LET d == data.v IN
    IF "country" \notin DOMAIN d \/ "indicator" \notin DOMAIN d
    THEN {[st |-> st, res |-> Raise("KeyError")]}
    ELSE IF d["indicator"].t # "obj" THEN {[st |-> st, res |-> Raise("TypeError")]}
    ELSE IF "id" \notin DOMAIN d["indicator"].v THEN {[st |-> st, res |-> Raise("KeyError")]}
    ELSE {[st |-> o.st, res |-> Observation(d, o.res)]
          : o \in memoizer(st, <<Class("Indicator"), d["indicator"].v["id"]>>, <<>>)}

\* [cls.from_api(item) for item in data] of CountryIndicator.get
RECURSIVE Observations(_, _, _)
Observations(st, items, acc) ==
  IF items = <<>> THEN {[st |-> st, res |-> Ok(acc)]}
  ELSE UNION {IF o.res.ok
              THEN Observations(o.st, Tail(items), Append(acc, o.res.val))
              ELSE {o}
              : o \in CountryIndicator_from_api(st, Head(items))}

\* The keyword arguments CountryIndicator.get hands to _request.
RangeParameters(kwargs) ==
  LET start == Lookup(kwargs, <<"start">>, None)
      end == Lookup(kwargs, <<"end">>, None)
      rest == pop(pop(kwargs, <<"start">>), <<"end">>)
      date == Lookup(rest, <<"date">>, None)
  IN IF Truthy(start) /\ Truthy(end) /\ ~Truthy(date)
     THEN setdefault(rest, ToStr(start) \o <<":">> \o ToStr(end), None)
     ELSE rest

\* CountryIndicator.get(indicator, country, **kwargs)
CountryIndicator_get(st, indicator, country, kwargs, resp) ==
  LET iso_code == IF Truthy(country) THEN ToStr(country.v.iso_code) ELSE <<"all">>
      url == domain \o <<"/", "countries", "/">> \o iso_code
                    \o <<"/", "indicators", "/">> \o ToStr(indicator.v.id)
      r == _request(url, RangeParameters(kwargs), resp)
      st1 == [st EXCEPT !.gets = @ \o r.gets, !.resps = Append(@, resp), !.log = @ \o r.log]
  IN IF ~r.res.ok THEN {[st |-> st1, res |-> r.res]}
     ELSE LET u == Unpack(r.res.val) IN
       IF ~u.ok THEN {[st |-> st1, res |-> u]}
       ELSE IF u.val.data.t # "arr" THEN {[st |-> st1, res |-> Raise("TypeError")]}
       ELSE {IF ~o.res.ok THEN o
             ELSE [st |-> o.st,
                   res |-> Ok([summary |-> u.val.summary,
                               instances |->
                                 IF Truthy(country)
                                 THEN [i \in DOMAIN o.res.val |->
                                         [o.res.val[i] EXCEPT !.v.country = country]]
                                 ELSE o.res.val])]
             : o \in Observations(st1, u.val.data.v, <<>>)}

(***************************************************************************)
(* State and operations                                                    *)
(***************************************************************************)
VARIABLES
  cache,   \* memoize's cache of Indicator.get: key -> (summary, instances)
  called,  \* the keys Indicator.get has been called with so far
  last     \* the call the process made last: its arguments, its GETs, the
           \* server's answers to them, its log lines and its outcome

vars == <<cache, called, last>>

Idle == [op |-> "none", args |-> <<>>, kwargs |-> <<>>,
         gets |-> <<>>, resps |-> <<>>, log |-> <<>>, res |-> Ok(None)]

Call(op, args, kwargs, r) ==
  [op |-> op, args |-> args, kwargs |-> kwargs,
   gets |-> r.gets, resps |-> r.resps, log |-> r.log, res |-> r.res]

\* The state an operation starts in.
Start == [cache |-> cache, called |-> called, gets |-> <<>>, resps |-> <<>>, log |-> <<>>]

\* What an operation that ran in state o.st and ended with o.res did.
Done(o) == [gets |-> o.st.gets, resps |-> o.st.resps, log |-> o.st.log, res |-> o.res]

\* An operation that issues one request, the answer filed with it.
One(r, resp) == [gets |-> r.gets, resps |-> <<resp>>, log |-> r.log, res |-> r.res]

\* The objects and options the caller passes.
Kwargs == {<<>>, << <<<<"page">>, Num(2)>> >>, << <<<<"format">>, T("xml")>> >>}
IndicatorCalls ==
  {[args |-> <<>>, kwargs |-> << <<<<"page">>, Num(2)>> >>],
   [args |-> <<T("A")>>, kwargs |-> <<>>]}
Years == << <<<<"start">>, Num(2010)>>, <<<<"end">>, Num(2015)>> >>
Date == << <<<<"date">>, T("2012")>> >>
SourceObject == Source_from_api(SourcePayload).val
IncomeLevelObject == IncomeLevel_from_api(IncomeLevelPayload).val
LendingTypeObject == LendingType_from_api(LendingTypePayload).val
TopicObject == Topic_from_api(TopicPayload).val
CountryObject == Country_from_api(CountryPayload).val
IndicatorObject == Indicator_from_api(IndicatorPayload(T("A"))).val
ObservationCalls ==
  {[country |-> None, kwargs |-> <<>>],
   [country |-> None, kwargs |-> Years],
   [country |-> None, kwargs |-> Date],
   [country |-> CountryObject, kwargs |-> <<Years[1]>>],
   [country |-> CountryObject, kwargs |-> Years \o Date]}
CatalogObject == Catalog_from_api(CatalogPayload).val

Init ==
  /\ cache = <<>>
  /\ called = {}
  /\ last = Idle

\* The caller is done with the result of its last call.
Return ==
  /\ last.op # "none"
  /\ last' = Idle
  /\ UNCHANGED <<cache, called>>

\* Query with a slip: the operation is wrapped in memoize as well.
Query_memoize(op, cls, args, url, kwargs, parameters) ==
  LET key == <<op>> \o Key(args, kwargs) IN
  /\ last.op = "none"
  /\ IF key \in DOMAIN cache
     THEN /\ last' = Call(op, args, kwargs,
                          [gets |-> <<>>, resps |-> <<>>, log |-> <<>>, res |-> Ok(cache[key])])
          /\ cache' = cache
     ELSE \E resp \in PagedResponses(cls) :
            LET r == PagedQuery(cls, url, parameters, resp) IN
            /\ last' = Call(op, args, kwargs, One(r, resp))
            /\ cache' = IF r.res.ok THEN Store(cache, key, r.res.val) ELSE cache
  /\ UNCHANGED called

\* A public operation that is one paged query.
Query(op, cls, args, url, kwargs, parameters) ==
  /\ last.op = "none"
  /\ \E resp \in PagedResponses(cls) :
       last' = Call(op, args, kwargs, One(PagedQuery(cls, url, parameters, resp), resp))
  /\ UNCHANGED <<cache, called>>

Source_get ==
  \E kwargs \in Kwargs :
    Query("Source.get", "Source", <<>>, domain \o <<"/", "sources">>, kwargs, kwargs)

IncomeLevel_get ==
  \E kwargs \in Kwargs :
    Query("IncomeLevel.get", "IncomeLevel", <<>>, domain \o <<"/", "incomeLevels">>,
          kwargs, kwargs)

LendingType_get ==
  \E kwargs \in Kwargs :
    Query("LendingType.get", "LendingType", <<>>, domain \o <<"/", "lendingTypes">>,
          kwargs, kwargs)

Topic_get ==
  \E kwargs \in Kwargs :
    Query("Topic.get", "Topic", <<>>, domain \o <<"/", "topics", "/">>, kwargs, kwargs)

Indicator_by_source ==
  \E source \in {SourceObject}, kwargs \in Kwargs :
    Query("Indicator.by_source", "Indicator", <<source>>,
          domain \o <<"/", "source", "/">> \o ToStr(source.v.id) \o <<"/", "indicator">>,
          kwargs, kwargs)

Indicator_by_topic ==
  \E topic \in {TopicObject}, kwargs \in Kwargs :
    Query("Indicator.by_topic", "Indicator", <<topic>>,
          domain \o <<"/", "topic", "/">> \o ToStr(topic.v.id) \o <<"/", "indicator">>,
          kwargs, kwargs)

Country_get ==
  \E iso_code \in {None, T("BR")}, kwargs \in Kwargs :
    Query("Country.get", "Country", <<iso_code>>,
          IF Truthy(iso_code)
          THEN domain \o <<"/", "countries">> \o <<"/">> \o ToStr(iso_code)
          ELSE domain \o <<"/", "countries">>,
          kwargs, kwargs)

Country_by_income_level ==
  \E income_level \in {IncomeLevelObject}, kwargs \in Kwargs :
    Query("Country.by_income_level", "Country", <<income_level>>,
          domain \o <<"/", "countries">>, kwargs,
          setdefault(kwargs, <<"incomeLevel">>, Str(ToStr(income_level))))

Country_by_lending_type ==
  \E lending_type \in {LendingTypeObject}, kwargs \in Kwargs :
    Query("Country.by_lending_type", "Country", <<lending_type>>,
          domain \o <<"/", "countries">>, kwargs,
          setdefault(kwargs, <<"lendingType">>, lending_type.v.id))

\* ';'.join(field)
RECURSIVE join(_, _)
join(sep, field) ==
  IF field = <<>> THEN <<>>
  ELSE IF Tail(field) = <<>> THEN Head(field)
  ELSE Head(field) \o <<sep>> \o join(sep, Tail(field))

Catalog_get ==
  /\ last.op = "none"
  /\ \E catalog \in {None, CatalogObject}, fields \in {<<>>, <<<<"name">>, <<"url">>>>},
        kwargs \in Kwargs, resp \in CatalogResponses :
       LET field == join(";", fields)
           url0 == domain \o <<"/", "datacatalog", "/">>
           url1 == IF Truthy(catalog) THEN url0 \o <<"/">> \o ToStr(catalog.v.id) ELSE url0
           url == IF field # <<>> THEN url1 \o <<"/", "metatypes", "/">> \o field ELSE url1
       IN last' = Call("Catalog.get", <<catalog, Str(field)>>, kwargs,
                       One(CatalogQuery(url, kwargs, resp), resp))
  /\ UNCHANGED <<cache, called>>

Catalog_search ==
  /\ last.op = "none"
  /\ \E query \in {T("gdp")}, kwargs \in Kwargs, resp \in CatalogResponses :
       last' = Call("Catalog.search", <<query>>, kwargs,
                    One(CatalogQuery(domain \o <<"/", "v2", "/", "datacatalog", "/", "search", "/">>
                                            \o ToStr(query),
                                     kwargs, resp), resp))
  /\ UNCHANGED <<cache, called>>

\* The memoized Indicator.get(indicator=None, **kwargs).
Indicator_get ==
  /\ last.op = "none"
  /\ \E c \in IndicatorCalls :
       \E o \in memoizer(Start, <<Class("Indicator")>> \o c.args, c.kwargs) :
         /\ last' = Call("Indicator.get", c.args, c.kwargs, Done(o))
         /\ cache' = o.st.cache
         /\ called' = o.st.called

CountryIndicator_get_call ==
  /\ last.op = "none"
  /\ \E indicator \in {IndicatorObject}, c \in ObservationCalls,
        resp \in PagedResponses("CountryIndicator") :
       \E o \in CountryIndicator_get(Start, indicator, c.country, c.kwargs, resp) :
         /\ last' = Call("CountryIndicator.get", <<indicator, c.country>>, c.kwargs,
                         Done(o))
         /\ cache' = o.st.cache
         /\ called' = o.st.called

Next ==
  \/ Source_get
  \/ IncomeLevel_get
  \/ LendingType_get
  \/ Topic_get
  \/ Indicator_get
  \/ Indicator_by_source
  \/ Indicator_by_topic
  \/ Country_get
  \/ Country_by_income_level
  \/ Country_by_lending_type
  \/ CountryIndicator_get_call
  \/ Catalog_get
  \/ Catalog_search
  \/ Return

Spec == Init /\ [][Next]_vars

(***************************************************************************)
(* Reading a URL back, as the server does                                  *)
(***************************************************************************)
\* The pieces of s between the occurrences of sep.
RECURSIVE SplitOn(_, _, _)
SplitOn(s, sep, piece) ==
  IF s = <<>> THEN <<piece>>
  ELSE IF Head(s) = sep THEN <<piece>> \o SplitOn(Tail(s), sep, <<>>)
  ELSE SplitOn(Tail(s), sep, Append(piece, Head(s)))

UnquoteChar(c) ==
  CASE c = "%3A" -> ":"
    [] c = "%2F" -> "/"
    [] c = "%3B" -> ";"
    [] c = "+" -> " "
    [] OTHER -> c
Unquote(s) == [i \in DOMAIN s |-> UnquoteChar(s[i])]

PathOf(url) == SplitOn(url, "?", <<>>)[1]

\* The parameters of url: <<key, value>> with the percent-encoding undone; a
\* parameter sent as a bare key has no second member.
ParametersOf(url) ==
  LET parts == SplitOn(url, "?", <<>>)
      fields == IF Len(parts) < 2 THEN <<>> ELSE SplitOn(parts[2], "&", <<>>)
  IN {LET kv == SplitOn(fields[i], "=", <<>>) IN [j \in DOMAIN kv |-> Unquote(kv[j])]
      : i \in DOMAIN fields}

Occurrences(s, x) == Cardinality({i \in DOMAIN s : s[i] = x})

IsIndicatorGet(url) ==
  LET path == PathOf(url) IN
  Len(path) >= Len(domain) + 2 /\ SubSeq(path, Len(domain) + 1, Len(domain) + 2) = <<"/", "indicators">>

\* The key memoize files a call of Indicator.get under.
KeyOf(call) == Key(<<Class("Indicator")>> \o call.args, call.kwargs)

\* The data array of a paged or catalog answer, <<>> for any other answer.
ItemsOf(resp) ==
  IF resp.kind # "json" THEN <<>>
  ELSE IF resp.body.t = "arr" /\ Len(resp.body.v) = 2 THEN resp.body.v[2].v
  ELSE IF resp.body.t = "obj" /\ "datacatalog" \in DOMAIN resp.body.v
       THEN resp.body.v["datacatalog"].v
  ELSE <<>>

(***************************************************************************)
(* C1  Memoized indicator lookup                                           *)
(***************************************************************************)
\* C1, as stated: once Indicator.get has been called with some arguments, a
\* later call with the same arguments issues no request (the first call
\* issued the only one).
C1_OneRequestPerArguments ==
  [][(last'.op = "Indicator.get" /\ KeyOf(last') \in called) => last'.gets = <<>>]_vars

\* C1, amended: a cache entry is never dropped or changed; a call whose key is
\* cached issues no request and returns the cached result; a call whose key
\* is not cached issues exactly one request, and its result is cached if and
\* only if it returns.
C1_OneRequestPerCachedKey ==
  [][/\ \A k \in DOMAIN cache : k \in DOMAIN cache' /\ cache'[k] = cache[k]
     /\ last'.op = "Indicator.get" =>
          LET k == KeyOf(last') IN
          IF k \in DOMAIN cache
          THEN last'.gets = <<>> /\ last'.res = Ok(cache[k]) /\ cache' = cache
          ELSE /\ Len(last'.gets) = 1
               /\ last'.res.ok => k \in DOMAIN cache' /\ cache'[k] = last'.res.val
               /\ ~last'.res.ok => cache' = cache]_vars

\* A call of Indicator.get answered from the cache with a non-empty result.
C1_Witness ==
  /\ last.op = "Indicator.get"
  /\ last.gets = <<>>
  /\ last.res.ok
  /\ last.res.val.instances # <<>>

(***************************************************************************)
(* C2  format=json                                                         *)
(***************************************************************************)
\* C2: every request sent carries format=json and no other format.
C2_FormatIsJson ==
  \A i \in DOMAIN last.gets :
    /\ <<<<"format">>, <<"json">>>> \in ParametersOf(last.gets[i])
    /\ \A p \in ParametersOf(last.gets[i]) : p[1] = <<"format">> => p = <<<<"format">>, <<"json">>>>

(***************************************************************************)
(* C3, C4  Requests per operation                                          *)
(***************************************************************************)
\* C3: CountryIndicator.get, always called with an Indicator object, issues
\* the observations request and no other.
C3_NoResolutionRequest ==
  last.op = "CountryIndicator.get" => Len(last.gets) = 1

\* C4, as stated: CountryIndicator.get issues at most two requests and every
\* other operation exactly one.
C4_AtMostTwoRequests ==
  last.op # "none" =>
    IF last.op = "CountryIndicator.get" THEN Len(last.gets) \in {1, 2} ELSE Len(last.gets) = 1

\* The indicator ids the observations of an answer embed.
EmbeddedIds(resp) ==
  {ItemsOf(resp)[i].v["indicator"].v["id"] : i \in DOMAIN ItemsOf(resp)}

\* What the code does instead of C4: every operation other than Indicator.get
\* and CountryIndicator.get issues exactly one request; Indicator.get issues
\* one or, answered from the cache, none; CountryIndicator.get issues the
\* observations request first and then at most one indicator request for each
\* distinct indicator id its observations embed.
RequestsPerOperation ==
  last.op # "none" =>
    CASE last.op = "CountryIndicator.get" ->
           /\ Len(last.gets) >= 1
           /\ ~IsIndicatorGet(last.gets[1])
           /\ \A i \in 2..Len(last.gets) : IsIndicatorGet(last.gets[i])
           /\ Len(last.gets) <= 1 + Cardinality(EmbeddedIds(last.resps[1]))
      [] last.op = "Indicator.get" -> Len(last.gets) <= 1
      [] OTHER -> Len(last.gets) = 1

\* A CountryIndicator.get that issued three requests.
ThreeRequests ==
  /\ last.op = "CountryIndicator.get"
  /\ Len(last.gets) = 3

(***************************************************************************)
(* C7  Date range                                                          *)
(***************************************************************************)
\* C7: with start and end given and no date, the observations request has
\* the parameter "<start>:<end>", once and without a value; start and end
\* are never parameters themselves; with a date given there is no range
\* parameter.
C7_RangeKeyWithoutValue ==
  last.op = "CountryIndicator.get" =>
    LET start == Lookup(last.kwargs, <<"start">>, None)
        end == Lookup(last.kwargs, <<"end">>, None)
        date == Lookup(last.kwargs, <<"date">>, None)
        range == ToStr(start) \o <<":">> \o ToStr(end)
        sent == ParametersOf(last.gets[1])
    IN /\ (start # None /\ end # None /\ date = None) =>
            /\ \E p \in sent : p[1] = range
            /\ \A p \in sent : p[1] = range => (Len(p) = 1 \/ p[2] = <<>>)
       /\ \A p \in sent : p[1] \notin {<<"start">>, <<"end">>}
       /\ date # None => \A p \in sent : Occurrences(p[1], ":") = 0

(***************************************************************************)
(* C8  No partial results                                                  *)
(***************************************************************************)
\* The class whose from_api maps the items of an operation's answer.
ClassOf(op) ==
  CASE op \in {"Source.get"} -> "Source"
    [] op \in {"IncomeLevel.get"} -> "IncomeLevel"
    [] op \in {"LendingType.get"} -> "LendingType"
    [] op \in {"Topic.get"} -> "Topic"
    [] op \in {"Indicator.get", "Indicator.by_source", "Indicator.by_topic"} -> "Indicator"
    [] op \in {"Country.get", "Country.by_income_level", "Country.by_lending_type"} -> "Country"
    [] op \in {"Catalog.get", "Catalog.search"} -> "Catalog"
    [] op \in {"CountryIndicator.get"} -> "CountryIndicator"

\* item maps, for an observation given that its indicator is found.
Maps(cls, item) ==
  IF cls = "CountryIndicator"
  THEN /\ item.t = "obj"
       /\ {"country", "indicator"} \subseteq DOMAIN item.v
       /\ Observation(item.v, Ok([instances |-> <<IndicatorObject>>])).ok
  ELSE from_api(cls, item).ok

\* C8: an operation that returns has mapped every item of the answer, in
\* order, and an answer with an item that does not map makes the operation
\* raise, with no records returned.
C8_NoPartialResults ==
  (last.op # "none" /\ last.resps # <<>>) =>
    LET items == ItemsOf(last.resps[1])
        cls == ClassOf(last.op)
    IN /\ last.res.ok =>
            /\ Len(last.res.val.instances) = Len(items)
            /\ cls # "CountryIndicator" =>
                 \A i \in DOMAIN items : last.res.val.instances[i] = from_api(cls, items[i]).val
       /\ (\E i \in DOMAIN items : ~Maps(cls, items[i])) => ~last.res.ok

\* An answer whose first item maps and whose second does not: the operation
\* raised.
C8_Witness ==
  /\ last.op \notin {"none", "CountryIndicator.get"}
  /\ last.resps # <<>>
  /\ Len(ItemsOf(last.resps[1])) >= 2
  /\ Maps(ClassOf(last.op), ItemsOf(last.resps[1])[1])
  /\ ~Maps(ClassOf(last.op), ItemsOf(last.resps[1])[2])
  /\ ~last.res.ok

ResourcePath(call) ==
  CASE call.op = "Source.get" -> <<"/", "sources">>
    [] call.op = "IncomeLevel.get" -> <<"/", "incomeLevels">>
    [] call.op = "LendingType.get" -> <<"/", "lendingTypes">>
    [] call.op = "Topic.get" -> <<"/", "topics", "/">>
    [] call.op = "Indicator.get" ->
         <<"/", "indicators">> \o (IF call.args = <<>> THEN <<>> ELSE <<"/">> \o call.args[1].v)
    [] call.op = "Indicator.by_source" -> <<"/", "source", "/">> \o call.args[1].v.id.v \o <<"/", "indicator">>
    [] call.op = "Indicator.by_topic" -> <<"/", "topic", "/">> \o call.args[1].v.id.v \o <<"/", "indicator">>
    [] call.op = "Country.get" ->
         <<"/", "countries">> \o (IF call.args[1] = None THEN <<>> ELSE <<"/">> \o call.args[1].v)
    [] call.op \in {"Country.by_income_level", "Country.by_lending_type"} -> <<"/", "countries">>
    [] call.op = "CountryIndicator.get" ->
         <<"/", "countries", "/">>
           \o (IF call.args[2] = None THEN <<"all">> ELSE call.args[2].v.iso_code.v)
           \o <<"/", "indicators", "/">> \o call.args[1].v.id.v
    [] call.op = "Catalog.get" ->
         <<"/", "datacatalog", "/">>
           \o (IF call.args[1] = None THEN <<>> ELSE <<"/">> \o call.args[1].v.id.v)
           \o (IF call.args[2].v = <<>> THEN <<>> ELSE <<"/", "metatypes", "/">> \o call.args[2].v)
    [] call.op = "Catalog.search" -> <<"/", "datacatalog", "/", "search", "/">> \o call.args[1].v

\* C10: the first GET of every operation goes to https://api.worldbank.org/v2
\* followed by the operation's resource path, with one version segment.
C10_ResourcePaths ==
  (last.op # "none" /\ last.gets # <<>>) =>
    /\ PathOf(last.gets[1]) = <<"https:", "/", "/", "api.worldbank.org", "/", "v2">> \o ResourcePath(last)
    /\ Occurrences(PathOf(last.gets[1]), "v2") = 1

\* C10 for every operation but Catalog.search.
C10_OtherPaths ==
  last.op # "Catalog.search" => C10_ResourcePaths

(***************************************************************************)
(* C11  Memoization of Indicator.get only                                  *)
(***************************************************************************)
\* C11: every call of an operation other than Indicator.get, in whatever
\* state of the process it is made, issues its own request first; but for
\* CountryIndicator.get, whose observations resolve their indicators, that
\* request is its only one and the call neither reads nor writes the
\* memoization cache.
C11_OnlyIndicatorGetMemoized ==
  [][last'.op \notin {"none", "Indicator.get"} =>
       /\ Len(last'.gets) >= 1
       /\ Len(last'.resps) = Len(last'.gets)
       /\ ~IsIndicatorGet(last'.gets[1])
       /\ last'.op # "CountryIndicator.get" =>
            Len(last'.gets) = 1 /\ cache' = cache /\ called' = called]_vars

\* A CountryIndicator.get made after the indicators of its observations were
\* looked up: they are answered from the cache, the observations request is
\* issued all the same.
C11_Witness ==
  /\ last.op = "CountryIndicator.get"
  /\ Len(last.gets) = 1
  /\ last.res.ok
  /\ last.res.val.instances # <<>>
  /\ cache # <<>>

(***************************************************************************)
(* C13  A failed lookup is not cached                                      *)
(***************************************************************************)
\* C13: a call of Indicator.get that raises leaves the cache as it was, with
\* no entry for its key; the caller's return leaves the cache as it was; and
\* a call whose key was looked up before and is not in the cache (every
\* earlier call with it raised) issues one new request and ends as the
\* answer to that request makes it end.
C13_FailedLookupNotCached ==
  [][/\ (last'.op = "Indicator.get" /\ ~last'.res.ok) =>
          /\ cache' = cache
          /\ KeyOf(last') \notin DOMAIN cache'
     /\ last'.op = "none" => cache' = cache
     /\ (last'.op = "Indicator.get" /\ KeyOf(last') \in called
           /\ KeyOf(last') \notin DOMAIN cache) =>
          /\ Len(last'.gets) = 1
          /\ Len(last'.resps) = 1
          /\ last'.res = obj(<<Class("Indicator")>> \o last'.args, last'.kwargs,
                             last'.resps[1]).res]_vars

\* A call of Indicator.get that raised on an item of its answer, made when
\* the cache held other entries, and whose key was not cached.
C13_Witness ==
  /\ last.op = "Indicator.get"
  /\ ~last.res.ok
  /\ ItemsOf(last.resps[1]) # <<>>
  /\ cache # <<>>
  /\ KeyOf(last) \notin DOMAIN cache

(***************************************************************************)
(* The mappers on their own: from_api applied to one payload               *)
(***************************************************************************)
\* full with any of its members left out and any of the nullable ones null.
Payloads(full, nullable) ==
  {Obj([k \in present |-> IF k \in null THEN None ELSE full.v[k]])
   : present \in SUBSET DOMAIN full.v, null \in SUBSET nullable}

TopicLists ==
  SeqsUpTo({Obj(<<>>), TopicPayload, Without(TopicPayload, "sourceNote"),
            Without(TopicPayload, "value")}, MaxTopics)

\* The payloads from_api of a class is applied to.
PayloadsOf(cls) ==
  CASE cls = "Source" -> Payloads([SourcePayload EXCEPT !.v = @ @@ [value |-> T("WDI")]], {})
    [] cls = "IncomeLevel" -> Payloads(IncomeLevelPayload, {})
    [] cls = "LendingType" -> Payloads(LendingTypePayload, {})
    [] cls = "Topic" -> Payloads(TopicPayload, {})
    [] cls = "Region" -> Payloads(RegionPayload, {})
    [] cls = "AdminRegion" -> Payloads(RegionPayload, {})
    [] cls = "Catalog" -> Payloads(CatalogPayload, {})
    [] cls = "Country" ->
         Payloads(CountryPayload, {"region", "adminregion", "incomeLevel", "lendingType"})
    [] cls = "Indicator" ->
         LET some == Payloads(IndicatorPayload(T("A")), {"source", "topics"}) IN
         some \cup {[p EXCEPT !.v.topics = Arr(topics)]
                    : p \in {q \in some : "topics" \in DOMAIN q.v}, topics \in TopicLists}
    [] cls = "CountryIndicator" ->
         Payloads(ObservationPayload(T("A"), Num(3)), {"value"})
           \cup Payloads(ObservationPayload(T("A"), T("n/a")), {})

Mappers ==
  {"Source", "IncomeLevel", "LendingType", "Topic", "Region", "AdminRegion", "Catalog",
   "Country", "Indicator"}

MapInit ==
  /\ cache = <<>>
  /\ called = {}
  /\ \E cls \in Mappers \cup {"CountryIndicator"} :
       \E payload \in PayloadsOf(cls) :
         last = [Idle EXCEPT !.op = "payload", !.args = <<Class(cls), payload>>]

\* cls.from_api(data)
Map(cls) ==
  /\ last.op = "payload"
  /\ last.args[1] = Class(cls)
  /\ last' = [last EXCEPT !.op = "from_api", !.res = from_api(cls, last.args[2])]
  /\ UNCHANGED <<cache, called>>

\* CountryIndicator.from_api(data), with its indicator lookup
MapObservation ==
  /\ last.op = "payload"
  /\ last.args[1] = Class("CountryIndicator")
  /\ \E o \in CountryIndicator_from_api(Start, last.args[2]) :
       /\ last' = Call("from_api", last.args, <<>>, Done(o))
       /\ cache' = o.st.cache
       /\ called' = o.st.called

MapNext ==
  \/ \E cls \in Mappers : Map(cls)
  \/ MapObservation

SpecMap == MapInit /\ [][MapNext]_vars

(***************************************************************************)
(* C5, C6  Members a payload lacks                                         *)
(***************************************************************************)
NestedOfCountry ==
  [region |-> "region", adminregion |-> "admin_region",
   incomeLevel |-> "income_level", lendingType |-> "lending_type"]

\* C5: a Country payload with every other member, whose region, adminregion,
\* incomeLevel or lendingType is null or absent, maps, and the record's
\* field is null for each of them that is null or absent.
C5_NullNestedEntity ==
  (last.op = "from_api" /\ last.args[1] = Class("Country")) =>
    LET d == last.args[2].v IN
    (DOMAIN CountryPayload.v \ DOMAIN NestedOfCountry) \subseteq DOMAIN d =>
      /\ last.res.ok
      /\ \A k \in DOMAIN NestedOfCountry :
           Get(d, k, None) = None => last.res.val.v[NestedOfCountry[k]] = None

\* C6: a payload that has its id, whatever other members it lacks, maps to a
\* record with that id.
C6_OnlyIdRequired ==
  (last.op = "from_api" /\ last.args[2].t = "obj") =>
    LET d == last.args[2].v IN
    ("id" \in DOMAIN d /\ \A k \in DOMAIN d : d[k] # None) =>
      last.res.ok /\ last.res.val.v.id = d["id"]

(***************************************************************************)
(* C12  Topics of an Indicator                                             *)
(***************************************************************************)
HasId(item) == item.t = "obj" /\ "id" \in DOMAIN item.v

=============================================================================
